---- MODULE Spec2Model ----
(***************************************************************************)
(* A model of pymdr (src/src/core.py): the MDR miner of data records.      *)
(*                                                                         *)
(* Encoding.                                                               *)
(*   - A node of the lxml tree is its path from the root: the sequence of  *)
(*     0-based child indices, <<>> for the root.                           *)
(*   - A tag is the sequence of the '-'-separated segments of node.tag; a  *)
(*     node name "{tag}-{seq:0>5}" is the tag's segments followed by the   *)
(*     sequence number, so that name.split("-")[0] is Head(name).          *)
(*   - A similarity score is Levenshtein.ratio in tenths (0.3 is 3).       *)
(*   - Python's None is NoName for a name, NoneInt for an integer and      *)
(*     NoneTable for a distance table; a table that is present is          *)
(*     SomeTable(t), t a function gnode_size -> (GNodePair -> score).      *)
(***************************************************************************)
EXTENDS Integers, Sequences, FiniteSets, TLC

VARIABLES
    \* ---- one call of a pure function (SpecCC, SpecIDR) ----
    fn_pc,              \* position of the harness of a pure function, "off" in Spec
    n_nodes,            \* len(node_list) / n_children of the call
    start_index,        \* start_index of the outermost _identify_data_regions
    oracle,             \* what Levenshtein.ratio answers for each window pair
    node_distances,     \* the table handed to _identify_data_regions
    ret,                \* the value the call returned
    max_dr,             \* max_dr of the outermost call at core.py:716
    asked_index,        \* the argument of DataRegion.__contains__
    contained,          \* what DataRegion.__contains__ returned
    \* ---- the MDR instance and its input tree (Spec) ----
    max_tag_per_gnode,  \* self.max_tag_per_gnode
    edit_distance_threshold,  \* self.edit_distance_threshold: field -> tenths
    tree,               \* the input document: [nch, tag], functions of the path
    ratio,              \* per node, what Levenshtein.ratio answers
    attrib,             \* node.attrib[NODE_NAME_ATTRIB], NoName when not set
    tag_counts,         \* node_namer.tag_counts
    used,               \* self._used
    distances,          \* self.distances
    data_regions,       \* self.data_regions
    data_records,       \* self.data_records
    pc,                 \* position inside MDR.__call__
    todo,               \* _compute_distances: the pending calls, first is next
    stack,              \* _find_data_regions: the call stack, top is last
    all_data_regions,   \* _find_data_records: regions the for loop has not yet taken
    cur_dr,             \* _find_data_records: the region being iterated
    iter_i              \* DataRegion._iter_i of cur_dr

fnvars == <<fn_pc, n_nodes, start_index, oracle, node_distances, ret, max_dr,
            asked_index, contained>>
mdrvars == <<tree, ratio, attrib, tag_counts, used, distances, data_regions,
             data_records, pc, todo, stack, all_data_regions, cur_dr, iter_i>>
config == <<max_tag_per_gnode, edit_distance_threshold>>
vars == <<fnvars, config, mdrvars>>

----------------------------------------------------------------------------
(* Bounds of the model.                                                    *)

MaxN == 6          \* longest children list of a pure-function call
MaxK == 3          \* largest max_tag_per_gnode
MaxBelow == 8      \* most nodes below the depth-3 node of a tree
MaxKids == MaxBelow \div 2      \* most children of the depth-3 node
MaxGrand == MaxBelow \div 2     \* most children of a depth-4 node
MaxWide == MaxKids \div 2       \* most rows of a table with rows of MaxGrand cells

(* Program constants.                                                      *)

MINIMUM_DEPTH == 3
DEFAULT_MDR_EDIT_DISTANCE_THRESHOLD == 3

Scores == {3, 9}   \* a score at the threshold and one above it

\* the namedtuple of core.py:205-210, a function of its field names
MDREditDistanceThresholds(data_region, find_records_1, find_records_2) ==
    [data_region |-> data_region, find_records_1 |-> find_records_1,
     find_records_2 |-> find_records_2]

\* MDREditDistanceThresholds.all_equal (core.py:211-213)
all_equal(threshold) == MDREditDistanceThresholds(threshold, threshold, threshold)

\* the default of the parameter edit_distance_threshold (core.py:217, 269)
DefaultThresholds == all_equal(DEFAULT_MDR_EDIT_DISTANCE_THRESHOLD)

\* the values of the parameter edit_distance_threshold of Spec's instance:
\* the default, and the tuple whose find_records_1 is the larger score
InitThresholds ==
    {MDREditDistanceThresholds(DEFAULT_MDR_EDIT_DISTANCE_THRESHOLD, find_records_1,
                               DEFAULT_MDR_EDIT_DISTANCE_THRESHOLD) :
         find_records_1 \in Scores}

NoName == <<>>
NoneInt == -1
NoneTable == [is_none |-> TRUE, table |-> <<>>]
SomeTable(t) == [is_none |-> FALSE, table |-> t]

----------------------------------------------------------------------------
(* The data types of core.py.                                              *)

GNode(parent, start, end) == [parent |-> parent, start |-> start, end |-> end]

GNodePair(left, right) == [left |-> left, right |-> right]

DataRegion(parent, gnode_size, first_gnode_start_index, n_nodes_covered) ==
    [parent |-> parent, gnode_size |-> gnode_size,
     first_gnode_start_index |-> first_gnode_start_index,
     n_nodes_covered |-> n_nodes_covered]

DataRegionEmpty == DataRegion(NoName, NoneInt, NoneInt, 0)

is_empty(dr) == dr.parent = NoName

n_gnodes(dr) == dr.n_nodes_covered \div dr.gnode_size

last_covered_tag_index(dr) == dr.first_gnode_start_index + dr.n_nodes_covered - 1

\* a slip in binary_from_last_gnode: the region starts at the gnode given
binary_from_given_gnode(gnode) ==
    LET gnode_size == gnode.end - gnode.start
    IN  DataRegion(gnode.parent, gnode_size, gnode.start, 2 * gnode_size)

binary_from_last_gnode(gnode) ==
    LET gnode_size == gnode.end - gnode.start
    IN  DataRegion(gnode.parent, gnode_size, gnode.start - gnode_size, 2 * gnode_size)

\* a slip in extend_one_gnode: the region grows by one node, not one gnode
extend_one_gnode_by_one_node(dr) ==
    DataRegion(dr.parent, dr.gnode_size, dr.first_gnode_start_index,
               dr.n_nodes_covered + 1)

extend_one_gnode(dr) ==
    DataRegion(dr.parent, dr.gnode_size, dr.first_gnode_start_index,
               dr.n_nodes_covered + dr.gnode_size)

\* a slip in __contains__: the last covered index is left out
ContainsHalfOpen(dr, child_index) ==
    /\ dr.first_gnode_start_index <= child_index
    /\ child_index < last_covered_tag_index(dr)

Contains(dr, child_index) ==
    /\ dr.first_gnode_start_index <= child_index
    /\ child_index <= last_covered_tag_index(dr)

\* a slip in __next__: _iter_i is advanced before the gnode is built
IterGNodeAdvanced(dr, k) ==
    LET start == dr.first_gnode_start_index + (k + 1) * dr.gnode_size
    IN  GNode(dr.parent, start, start + dr.gnode_size)

\* the k-th GNode that iterating dr yields (k counted from 0)
IterGNode(dr, k) ==
    LET start == dr.first_gnode_start_index + k * dr.gnode_size
    IN  GNode(dr.parent, start, start + dr.gnode_size)

----------------------------------------------------------------------------
(* MDR._compare_combinations (core.py:393-512).                            *)

\* The window pairs a children list of length n has: <<l, s>> is the pair of
\* the windows [l, l+s) and [l+s, l+2s).  The oracle answers on these.
WindowPairs(n) == {<<l, s>> \in (0..n) \X (1..n) : l + 2 * s <= n}

\* Levenshtein.ratio(nodes_to_string(left), nodes_to_string(right)): the
\* answer of the oracle for two adjacent windows of equal size.
EditDistance(orc, left_gnode, right_gnode) ==
    LET key == <<left_gnode.start, left_gnode.end - left_gnode.start>>
    IN  IF /\ left_gnode.end = right_gnode.start
           /\ right_gnode.end - right_gnode.start = left_gnode.end - left_gnode.start
           /\ key \in DOMAIN orc
        THEN orc[key]
        ELSE 9

\* distances[gnode_size][gnode_pair] = edit_distance on a defaultdict(dict)
StoreDistance(dist, gnode_size, gnode_pair, edit_distance) ==
    LET inner == IF gnode_size \in DOMAIN dist THEN dist[gnode_size] ELSE <<>>
        inner2 == [p \in (DOMAIN inner) \cup {gnode_pair} |->
                      IF p = gnode_pair THEN edit_distance ELSE inner[p]]
    IN  [s \in (DOMAIN dist) \cup {gnode_size} |->
            IF s = gnode_size THEN inner2 ELSE dist[s]]

\* a slip in there_are_pairs_to_look: the +1 of the open range is forgotten
there_are_pairs_to_look_closed(starting_tag, gnode_size, n) ==
    (starting_tag + 2 * gnode_size - 1) < n

\* a slip in right_gnode_exists: the +1 of the open range is forgotten
right_gnode_exists_closed(right_gnode_start, gnode_size, n) ==
    right_gnode_start + gnode_size < n

\* core.py:426-428
there_are_pairs_to_look(starting_tag, gnode_size, n) ==
    (starting_tag + 2 * gnode_size - 1) < n + 1

\* core.py:453-455
right_gnode_exists(right_gnode_start, gnode_size, n) ==
    right_gnode_start + gnode_size < n + 1

\* the loop of core.py:436-508 from right_gnode_start on
RECURSIVE RightLoop(_, _, _, _, _, _, _)
RightLoop(right_gnode_start, left_gnode_start, gnode_size, n, parent_name, orc, dist) ==
    IF right_gnode_start >= n THEN dist
    ELSE IF right_gnode_exists(right_gnode_start, gnode_size, n)
         THEN LET left_gnode == GNode(parent_name, left_gnode_start, right_gnode_start)
                  right_gnode == GNode(parent_name, right_gnode_start,
                                       right_gnode_start + gnode_size)
                  edit_distance == EditDistance(orc, left_gnode, right_gnode)
              IN  RightLoop(right_gnode_start + gnode_size, right_gnode_start,
                            gnode_size, n, parent_name, orc,
                            StoreDistance(dist, gnode_size,
                                          GNodePair(left_gnode, right_gnode),
                                          edit_distance))
         ELSE RightLoop(right_gnode_start + gnode_size, left_gnode_start,
                        gnode_size, n, parent_name, orc, dist)

\* the loop of core.py:420-510 from gnode_size on
RECURSIVE SizeLoop(_, _, _, _, _, _, _)
SizeLoop(gnode_size, starting_tag, K, n, parent_name, orc, dist) ==
    IF gnode_size > K THEN dist
    ELSE LET dist2 == IF there_are_pairs_to_look(starting_tag, gnode_size, n)
                      THEN RightLoop(starting_tag + gnode_size - 1, starting_tag - 1,
                                     gnode_size, n, parent_name, orc, dist)
                      ELSE dist
         IN  SizeLoop(gnode_size + 1, starting_tag, K, n, parent_name, orc, dist2)

\* the loop of core.py:416-510 from starting_tag on
RECURSIVE TagLoop(_, _, _, _, _, _)
TagLoop(starting_tag, K, n, parent_name, orc, dist) ==
    IF starting_tag > K THEN dist
    ELSE TagLoop(starting_tag + 1, K, n, parent_name, orc,
                 SizeLoop(starting_tag, starting_tag, K, n, parent_name, orc, dist))

_compare_combinations(n, K, parent_name, orc) ==
    IF n = 0 THEN <<>>
    ELSE TagLoop(1, K, n, parent_name, orc, <<>>)

----------------------------------------------------------------------------
(* MDR._identify_data_regions (core.py:575-746).                           *)

\* a slip in the replacement test: the larger candidate always wins
ReplacesMaxLargerOnly(best, current_dr) ==
    best.n_nodes_covered < current_dr.n_nodes_covered

\* core.py:690-702: does the candidate of a phase replace the best so far
ReplacesMax(best, current_dr) ==
    LET current_is_strictly_larger == best.n_nodes_covered < current_dr.n_nodes_covered
        current_starts_at_same_node_or_before ==
            \/ is_empty(best)
            \/ current_dr.first_gnode_start_index <= best.first_gnode_start_index
    IN  current_is_strictly_larger /\ current_starts_at_same_node_or_before

\* a slip in the comparison: the score is read as a similarity
PassesThresholdInverted(distance, threshold) == distance >= threshold

\* core.py:641: the pair counts as similar
PassesThreshold(distance, threshold) == distance <= threshold

\* a slip in the range of last_gn_start_idx: the last window is left out
ScanStopShort(n_children, gnode_size) == n_children - gnode_size

\* a slip in the recursive call: it restarts on the last covered child
NextStartIndexSame(last_covered_idx) == last_covered_idx

\* a slip in the range of last_gn_start_idx: one window too many
ScanStopLong(n_children, gnode_size) == n_children - gnode_size + 2

\* core.py:611: the stop of the range of last_gn_start_idx
ScanStop(n_children, gnode_size) == n_children - gnode_size + 1

\* core.py:732: the start_index of the recursive call
NextStartIndex(last_covered_idx) == last_covered_idx + 1

\* the loop of core.py:608-685 from last_gn_start_idx on; the value is current_dr
RECURSIVE ScanLoop(_, _, _, _, _, _, _, _)
ScanLoop(last_gn_start_idx, gnode_size, node_name, n_children, dist, threshold, current_dr, dr_has_started) ==
    IF last_gn_start_idx >= ScanStop(n_children, gnode_size) THEN current_dr
    ELSE LET gn_last == GNode(node_name, last_gn_start_idx, last_gn_start_idx + gnode_size)
             gn_before_last == GNode(node_name, last_gn_start_idx - gnode_size,
                                     last_gn_start_idx)
             gn_pair == GNodePair(gn_before_last, gn_last)
             distance == dist[gnode_size][gn_pair]
         IN  IF PassesThreshold(distance, threshold)
             THEN IF ~dr_has_started
                  THEN ScanLoop(last_gn_start_idx + gnode_size, gnode_size, node_name,
                                n_children, dist, threshold,
                                binary_from_last_gnode(gn_last), TRUE)
                  ELSE ScanLoop(last_gn_start_idx + gnode_size, gnode_size, node_name,
                                n_children, dist, threshold,
                                extend_one_gnode(current_dr), TRUE)
             ELSE IF dr_has_started
                  THEN current_dr
                  ELSE ScanLoop(last_gn_start_idx + gnode_size, gnode_size, node_name,
                                n_children, dist, threshold, current_dr, FALSE)

\* the loop of core.py:596-715 from first_gn_start_idx on; st is [max_dr, current_dr]
RECURSIVE PhaseLoop(_, _, _, _, _, _, _, _)
PhaseLoop(first_gn_start_idx, gnode_size, start, node_name, n_children, dist, threshold, st) ==
    IF first_gn_start_idx >= start + gnode_size THEN st
    ELSE LET current_dr == ScanLoop(first_gn_start_idx + gnode_size, gnode_size,
                                    node_name, n_children, dist, threshold,
                                    st.current_dr, FALSE)
             best == IF ReplacesMax(st.max_dr, current_dr) THEN current_dr ELSE st.max_dr
         IN  PhaseLoop(first_gn_start_idx + 1, gnode_size, start, node_name,
                       n_children, dist, threshold,
                       [max_dr |-> best, current_dr |-> current_dr])

\* the loop of core.py:591-715 from gnode_size on
RECURSIVE GSizeLoop(_, _, _, _, _, _, _, _)
GSizeLoop(gnode_size, K, start, node_name, n_children, dist, threshold, st) ==
    IF gnode_size > K THEN st
    ELSE GSizeLoop(gnode_size + 1, K, start, node_name, n_children, dist, threshold,
                   PhaseLoop(start, gnode_size, start, node_name, n_children, dist,
                             threshold, st))

\* max_dr at core.py:716
MaxDataRegion(start, node_name, n_children, dist, K, threshold) ==
    GSizeLoop(1, K, start, node_name, n_children, dist, threshold,
              [max_dr |-> DataRegionEmpty, current_dr |-> DataRegionEmpty]).max_dr

\* a slip in the tail of _identify_data_regions: no recursive call
_identify_data_regions_first_only(start, node_name, n_children, dists, K, threshold) ==
    IF dists.is_none \/ DOMAIN dists.table = {} THEN {}
    ELSE LET best == MaxDataRegion(start, node_name, n_children, dists.table, K, threshold)
         IN  IF ~is_empty(best) THEN {best} ELSE {}

RECURSIVE _identify_data_regions(_, _, _, _, _, _)
_identify_data_regions(start, node_name, n_children, dists, K, threshold) ==
    IF dists.is_none \/ DOMAIN dists.table = {} THEN {}
    ELSE LET best == MaxDataRegion(start, node_name, n_children, dists.table, K, threshold)
         IN  IF ~is_empty(best)
             THEN LET last_covered_idx == last_covered_tag_index(best)
                  IN  IF last_covered_idx < n_children - 1
                      THEN {best} \cup _identify_data_regions(NextStartIndex(last_covered_idx),
                                           node_name, n_children, dists, K, threshold)
                      ELSE {best}
             ELSE {}

----------------------------------------------------------------------------
(* The variables of the part of the model a specification does not use.    *)

FnOff ==
    /\ fn_pc = "off" /\ n_nodes = 0 /\ start_index = 0 /\ oracle = <<>>
    /\ node_distances = NoneTable /\ ret = {} /\ max_dr = DataRegionEmpty
    /\ asked_index = 0 /\ contained = FALSE

MdrOff ==
    /\ tree = <<>> /\ ratio = <<>> /\ attrib = <<>> /\ tag_counts = <<>>
    /\ used = FALSE /\ distances = <<>> /\ data_regions = <<>>
    /\ data_records = <<>> /\ pc = "off" /\ todo = <<>> /\ stack = <<>>
    /\ all_data_regions = {} /\ cur_dr = DataRegionEmpty /\ iter_i = 0

----------------------------------------------------------------------------
(* SpecCC: one call of _compare_combinations on a children list of        *)
(* n_nodes nodes whose parent is named ParentName.                         *)

ParentName == <<"table", 0>>

InitCC ==
    /\ fn_pc = "cc_call"
    /\ n_nodes \in 0..MaxN
    /\ max_tag_per_gnode \in 1..MaxK
    /\ edit_distance_threshold = DefaultThresholds
    /\ oracle \in [WindowPairs(n_nodes) -> Scores]
    /\ start_index = 0
    /\ node_distances = NoneTable
    /\ ret = <<>>
    /\ max_dr = DataRegionEmpty
    /\ asked_index = 0
    /\ contained = FALSE
    /\ MdrOff

CompareCombinationsCall ==
    /\ fn_pc = "cc_call"
    /\ ret' = _compare_combinations(n_nodes, max_tag_per_gnode, ParentName, oracle)
    /\ fn_pc' = "cc_ret"
    /\ UNCHANGED <<n_nodes, start_index, oracle, node_distances, max_dr,
                   asked_index, contained, config, mdrvars>>

NextCC == CompareCombinationsCall

SpecCC == InitCC /\ [][NextCC]_vars

----------------------------------------------------------------------------
(* SpecIDR: one call of _identify_data_regions, on the table that          *)
(* _compare_combinations builds for the n_nodes children of ParentName,    *)
(* from any start_index.                                                   *)

InitIDR ==
    /\ fn_pc = "idr_call"
    /\ n_nodes \in 0..MaxN
    /\ max_tag_per_gnode \in 1..MaxK
    /\ edit_distance_threshold = DefaultThresholds
    /\ oracle \in [WindowPairs(n_nodes) -> Scores]
    /\ start_index \in 0..n_nodes
    /\ node_distances \in
           {SomeTable(_compare_combinations(n_nodes, max_tag_per_gnode, ParentName, oracle)),
            NoneTable}
    /\ ret = {}
    /\ max_dr = DataRegionEmpty
    /\ asked_index = 0
    /\ contained = FALSE
    /\ MdrOff

IdentifyDataRegionsCall ==
    /\ fn_pc = "idr_call"
    /\ ret' = _identify_data_regions(start_index, ParentName, n_nodes, node_distances,
                                     max_tag_per_gnode,
                                     edit_distance_threshold.data_region)
    /\ max_dr' = IF node_distances.is_none \/ DOMAIN node_distances.table = {}
                 THEN DataRegionEmpty
                 ELSE MaxDataRegion(start_index, ParentName, n_nodes,
                                    node_distances.table, max_tag_per_gnode,
                                    edit_distance_threshold.data_region)
    /\ fn_pc' = "idr_ret"
    /\ UNCHANGED <<n_nodes, start_index, oracle, node_distances,
                   asked_index, contained, config, mdrvars>>

NextIDR == IdentifyDataRegionsCall

SpecIDR == InitIDR /\ [][NextIDR]_vars

----------------------------------------------------------------------------
(* SpecDR: a DataRegion of ParentName is iterated to the end, as           *)
(* list(dr) does, then asked whether it contains asked_index.              *)

\* regions of 1 or more gnodes that lie within MaxN children
RegionInputs ==
    {DataRegion(ParentName, s, f, g * s) :
        <<s, f, g>> \in {t \in (1..MaxK) \X (0..MaxN) \X (1..MaxN) : t[2] + t[3] * t[1] <= MaxN}}

InitDR ==
    /\ fn_pc = "dr_new"
    /\ cur_dr \in RegionInputs
    /\ asked_index \in 0..MaxN
    /\ contained = FALSE
    /\ iter_i = NoneInt
    /\ ret = <<>>
    /\ n_nodes = 0 /\ start_index = 0 /\ oracle = <<>>
    /\ node_distances = NoneTable /\ max_dr = DataRegionEmpty
    /\ max_tag_per_gnode = MaxK
    /\ edit_distance_threshold = DefaultThresholds
    /\ tree = <<>> /\ ratio = <<>> /\ attrib = <<>> /\ tag_counts = <<>>
    /\ used = FALSE /\ distances = <<>> /\ data_regions = <<>>
    /\ data_records = <<>> /\ pc = "off" /\ todo = <<>> /\ stack = <<>>
    /\ all_data_regions = {}

\* DataRegion.__iter__ (core.py:109-111)
DataRegionIter ==
    /\ fn_pc = "dr_new"
    /\ iter_i' = 0
    /\ fn_pc' = "dr_iter"
    /\ UNCHANGED <<n_nodes, start_index, oracle, node_distances, ret, max_dr,
                   asked_index, contained, config, tree, ratio, attrib, tag_counts,
                   used, distances, data_regions, data_records, pc, todo, stack,
                   all_data_regions, cur_dr>>

\* DataRegion.__next__ (core.py:113-123): the next gnode is yielded, or
\* StopIteration ends the iteration
DataRegionNext ==
    /\ fn_pc = "dr_iter"
    /\ IF iter_i < n_gnodes(cur_dr)
       THEN /\ ret' = Append(ret, IterGNode(cur_dr, iter_i))
            /\ iter_i' = iter_i + 1
            /\ UNCHANGED fn_pc
       ELSE /\ fn_pc' = "dr_stop"
            /\ UNCHANGED <<ret, iter_i>>
    /\ UNCHANGED <<n_nodes, start_index, oracle, node_distances, max_dr,
                   asked_index, contained, config, tree, ratio, attrib, tag_counts,
                   used, distances, data_regions, data_records, pc, todo, stack,
                   all_data_regions, cur_dr>>

\* DataRegion.__contains__ (core.py:96-107)
DataRegionContains ==
    /\ fn_pc = "dr_stop"
    /\ contained' = Contains(cur_dr, asked_index)
    /\ fn_pc' = "dr_contains"
    /\ UNCHANGED <<n_nodes, start_index, oracle, node_distances, ret, max_dr,
                   asked_index, config, mdrvars>>

NextDR == DataRegionIter \/ DataRegionNext \/ DataRegionContains

SpecDR == InitDR /\ [][NextDR]_vars

----------------------------------------------------------------------------
(* SpecNew: the construction of an MDR instance, MDR.__init__              *)
(* (core.py:266-285), with any max_tag_per_gnode and any thresholds.       *)

\* the values tried for max_tag_per_gnode: non-positive ones and positive ones
MaxTagInputs == (0 - 1)..MaxK

\* the values tried for each threshold, in tenths: -0.1, 0, 0.3, 1.0 and 1.1
ThresholdInputs == {0 - 1, 0, 3, 10, 11}

InitNew ==
    /\ FnOff
    /\ max_tag_per_gnode = NoneInt
    /\ edit_distance_threshold = <<>>
    /\ tree = <<>> /\ ratio = <<>> /\ attrib = <<>> /\ tag_counts = <<>>
    /\ used = FALSE /\ distances = <<>> /\ data_regions = <<>>
    /\ data_records = <<>> /\ pc = "new" /\ todo = <<>> /\ stack = <<>>
    /\ all_data_regions = {} /\ cur_dr = DataRegionEmpty /\ iter_i = 0

\* MDR.__init__ (core.py:266-285): the arguments are stored as they come and
\* the instance is ready to be called
MDRInit ==
    /\ pc = "new"
    /\ \E max_tag \in MaxTagInputs :
           max_tag_per_gnode' = max_tag
    /\ \E data_region \in ThresholdInputs : \E find_records_1 \in ThresholdInputs :
           \E find_records_2 \in ThresholdInputs :
               edit_distance_threshold' =
                   MDREditDistanceThresholds(data_region, find_records_1, find_records_2)
    /\ used' = FALSE
    /\ distances' = <<>>
    /\ tag_counts' = <<>>
    /\ data_regions' = <<>>
    /\ data_records' = <<>>
    /\ pc' = "idle"
    /\ UNCHANGED <<fnvars, tree, ratio, attrib, todo, stack, all_data_regions,
                   cur_dr, iter_i>>

NextNew == MDRInit

SpecNew == InitNew /\ [][NextNew]_vars

----------------------------------------------------------------------------
(* The input documents of Spec: html > body > div > table, the table       *)
(* (depth 3) with up to MaxKids rows of one tag (div, tr or the custom     *)
(* element x-row), at most MaxBelow rows and cells in all; and the         *)
(* document html > body > div, which has no node of depth 3.  A table of   *)
(* up to MaxWide rows has rows of up to MaxGrand cells and is read by an   *)
(* instance with the default thresholds or with a find_records_1 threshold *)
(* above the other two; a table of more rows has rows of up to             *)
(* MaxGrand / 2 cells and is read with the default thresholds.             *)

Root == <<>>
TableNode == <<0, 0, 0>>
Spine == {<<>>, <<0>>, <<0, 0>>}

TR == <<"tr">>
\* the tag 'x-row' of a custom element: two '-'-separated segments
XRow == <<"x", "row">>
RowTags == {<<"div">>, TR, XRow}

\* a row: its number of cells and what Levenshtein.ratio answers on them
RowKinds ==
    UNION {{[n |-> g, orc |-> o] : o \in [WindowPairs(g) -> Scores]} : g \in 0..MaxGrand}

RECURSIVE SumCells(_, _)
SumCells(rows, k) == IF k = 0 THEN 0 ELSE rows[k].n + SumCells(rows, k - 1)

RowNode(i) == Append(TableNode, i)
CellNode(i, j) == Append(RowNode(i), j)

DeepTree(rows, rowtag) ==
    LET k == Len(rows)
        rowNodes == {RowNode(i) : i \in 0..(k - 1)}
        cellNodes == UNION {{CellNode(i, j) : j \in 0..(rows[i + 1].n - 1)} : i \in 0..(k - 1)}
        nodes == Spine \cup {TableNode} \cup rowNodes \cup cellNodes
    IN  [nch |-> [p \in nodes |->
                    IF p \in Spine THEN 1
                    ELSE IF p = TableNode THEN k
                    ELSE IF p \in rowNodes THEN rows[p[4] + 1].n
                    ELSE 0],
         tag |-> [p \in nodes |->
                    IF p = <<>> THEN <<"html">>
                    ELSE IF p = <<0>> THEN <<"body">>
                    ELSE IF p = <<0, 0>> THEN <<"div">>
                    ELSE IF p = TableNode THEN <<"table">>
                    ELSE IF p \in rowNodes THEN rowtag
                    ELSE <<"td">>]]

DeepRatio(rows, orcTable) ==
    LET k == Len(rows)
        rowNodes == {RowNode(i) : i \in 0..(k - 1)}
    IN  [p \in rowNodes \cup {TableNode} |->
            IF p = TableNode THEN orcTable ELSE rows[p[4] + 1].orc]

ShallowTree ==
    [nch |-> [p \in Spine |-> IF p = <<0, 0>> THEN 0 ELSE 1],
     tag |-> [p \in Spine |->
                IF p = <<>> THEN <<"html">>
                ELSE IF p = <<0>> THEN <<"body">> ELSE <<"div">>]]

Nodes == DOMAIN tree.nch

\* a slip in depth: the -1 of the return is forgotten
depth_counting_the_node(node) == Len(node) + 1

\* MDR.depth (core.py:311-317): the number of ancestors
depth(node) == Len(node)

\* node.getchildren(), as the sequence of the children's paths
getchildren(node) == [i \in 1..tree.nch[node] |-> Append(node, i - 1)]

\* a slip at core.py:411: the first node of the list is taken for its parent
getparent_is_the_node(node) == node

\* node.getparent()
getparent(node) == SubSeq(node, 1, Len(node) - 1)

\* document order: p comes before q in the pre-order of the tree
RECURSIVE DocBefore(_, _)
DocBefore(p, q) ==
    IF p = <<>> THEN q # <<>>
    ELSE IF q = <<>> THEN FALSE
    ELSE IF Head(p) # Head(q) THEN Head(p) < Head(q)
    ELSE DocBefore(Tail(p), Tail(q))

----------------------------------------------------------------------------
(* NodeNamer.__call__ (core.py:237-246): the name it returns and what it   *)
(* leaves in node.attrib and in tag_counts.                                *)

TagCount(tc, tag) == IF tag \in DOMAIN tc THEN tc[tag] ELSE 0

\* "{0}-{1:0>5}".format(tag, tag_sequential)
FormatName(tag, tag_sequential) == Append(tag, tag_sequential)

node_namer(att, tc, node) ==
    IF att[node] # NoName THEN att[node]
    ELSE FormatName(tree.tag[node], TagCount(tc, tree.tag[node]))

node_namer_attrib(att, tc, node) ==
    IF att[node] # NoName THEN att
    ELSE [att EXCEPT ![node] = FormatName(tree.tag[node], TagCount(tc, tree.tag[node]))]

\* a slip in NodeNamer.__call__: the name is written to node.tag
node_namer_tree_renaming(t, att, tc, node) ==
    IF att[node] # NoName THEN t
    ELSE [t EXCEPT !.tag[node] = FormatName(t.tag[node], TagCount(tc, t.tag[node]))]

\* what NodeNamer.__call__ leaves of the tags and the children lists of the
\* tree t: node.set (core.py:245) writes an attribute and nothing else
node_namer_tree(t, att, tc, node) == t

\* a slip in NodeNamer.__call__: the counter advances on every call
node_namer_counts_on_every_call(att, tc, node) ==
    LET tag == tree.tag[node]
    IN  [t \in (DOMAIN tc) \cup {tag} |->
            IF t = tag THEN TagCount(tc, tag) + 1 ELSE tc[t]]

node_namer_counts(att, tc, node) ==
    IF att[node] # NoName THEN tc
    ELSE LET tag == tree.tag[node]
         IN  [t \in (DOMAIN tc) \cup {tag} |->
                 IF t = tag THEN TagCount(tc, tag) + 1 ELSE tc[t]]

\* get_node of MDR.__call__ (core.py:344-352): the first node in document order
\* whose tag is node_name.split("-")[0] and whose attribute is node_name;
\* the value is the set holding it, empty when [0] raises IndexError
get_node(node_name) ==
    LET tag == <<Head(node_name)>>
        found == {p \in Nodes : tree.tag[p] = tag /\ attrib[p] = node_name}
    IN  {p \in found : \A q \in found : q = p \/ DocBefore(p, q)}

\* self.node_namer(n) for n in nodes, one call after the other (core.py:750):
\* what the calls leave in the tree, in node.attrib and in tag_counts
RECURSIVE NamerFold(_, _, _, _)
NamerFold(t, att, tc, nodes) ==
    IF nodes = <<>> THEN [tree |-> t, attrib |-> att, tag_counts |-> tc]
    ELSE NamerFold(node_namer_tree(t, att, tc, Head(nodes)),
                   node_namer_attrib(att, tc, Head(nodes)),
                   node_namer_counts(att, tc, Head(nodes)), Tail(nodes))

\* dict.__setitem__
SetItem(d, key, value) ==
    [k \in (DOMAIN d) \cup {key} |-> IF k = key THEN value ELSE d[k]]

----------------------------------------------------------------------------
(* Spec: one MDR instance with max_tag_per_gnode = MaxK and the default    *)
(* thresholds, run on a tree.                                              *)

Init ==
    /\ FnOff
    /\ max_tag_per_gnode = MaxK
    /\ \/ /\ tree = ShallowTree
          /\ ratio = <<>>
          /\ edit_distance_threshold = DefaultThresholds
       \/ \E k \in 0..MaxKids : \E rows \in [1..k -> RowKinds] :
              /\ k + SumCells(rows, k) <= MaxBelow
              /\ k > MaxWide => \A i \in 1..k : rows[i].n <= MaxGrand \div 2
              /\ edit_distance_threshold \in
                     IF k <= MaxWide THEN InitThresholds ELSE {DefaultThresholds}
              /\ \E rowtag \in RowTags : tree = DeepTree(rows, rowtag)
              /\ \E orcTable \in [WindowPairs(k) -> Scores] :
                     ratio = DeepRatio(rows, orcTable)
    /\ attrib = [p \in Nodes |-> NoName]
    /\ tag_counts = <<>>
    /\ used = FALSE
    /\ distances = <<>>
    /\ data_regions = <<>>
    /\ data_records = <<>>
    /\ pc = "idle"
    /\ todo = <<>>
    /\ stack = <<>>
    /\ all_data_regions = {}
    /\ cur_dr = DataRegionEmpty
    /\ iter_i = 0

\* where MDR.__call__ can be invoked: before the first run, and after a run
\* has returned or raised
ErrorPcs == {"TypeError", "IndexError", "KeyError", "AttributeError"}
Callable == {"idle", "done", "UsedMDRException"} \cup ErrorPcs

\* a slip in __call__: the test of self._used is forgotten
CallWithoutUsedCheck ==
    /\ pc \in Callable
    /\ used' = TRUE
    /\ pc' = "distances"
    /\ todo' = <<Root>>
    /\ UNCHANGED <<fnvars, config, tree, ratio, attrib, tag_counts,
                   distances, data_regions, data_records, stack,
                   all_data_regions, cur_dr, iter_i>>

\* a slip in MDR.__call__: the instance is not marked used
CallWithoutMarking ==
    /\ pc \in Callable
    /\ IF used
       THEN /\ pc' = "UsedMDRException"
            /\ UNCHANGED <<used, todo>>
       ELSE /\ pc' = "distances"
            /\ todo' = <<Root>>
            /\ UNCHANGED used
    /\ UNCHANGED <<fnvars, config, tree, ratio, attrib, tag_counts,
                   distances, data_regions, data_records, stack,
                   all_data_regions, cur_dr, iter_i>>

\* MDR.__call__ (core.py:328-334): a used instance raises UsedMDRException;
\* else the instance is marked used and the distance phase is entered with
\* the call _compute_distances(root) pending
Call ==
    /\ pc \in Callable
    /\ IF used
       THEN /\ pc' = "UsedMDRException"
            /\ UNCHANGED <<used, todo>>
       ELSE /\ used' = TRUE
            /\ pc' = "distances"
            /\ todo' = <<Root>>
    /\ UNCHANGED <<fnvars, config, tree, ratio, attrib, tag_counts,
                   distances, data_regions, data_records, stack,
                   all_data_regions, cur_dr, iter_i>>

\* one call of MDR._compute_distances (core.py:361-391) up to its loop over
\* the children, whose calls become the next pending ones; when none is
\* pending __call__ goes on to _find_data_regions(root) (core.py:336-337)
\* the nodes lxml.etree.tostring writes out for a node: the node and all the
\* nodes below it
Subtree(node) ==
    {q \in Nodes : Len(q) >= Len(node) /\ SubSeq(q, 1, Len(node)) = node}

\* MDR.nodes_to_string (core.py:319-326), as far as the identity attribute
\* goes: the attribute of every node the string of the nodes shows (the tags
\* and the structure are what the oracle answers on)
nodes_to_string(att, nodes) ==
    [q \in UNION {Subtree(nodes[i]) : i \in 1..Len(nodes)} |-> att[q]]

\* Levenshtein.ratio on the strings of the windows of the children of node as
\* they are when node.attrib is att (core.py:488-496): the oracle's answer
\* when the strings show no identity attribute; when they do the strings are
\* other ones and the score may be any, the oracle's included
SerializedRatios(orc, att, node) ==
    {seen \in [DOMAIN orc -> Scores] :
        \A key \in DOMAIN orc :
            LET shown == nodes_to_string(att, SubSeq(getchildren(node), key[1] + 1,
                                                     key[1] + 2 * key[2]))
            IN  (\A q \in DOMAIN shown : shown[q] = NoName) => seen[key] = orc[key]}

ComputeDistances ==
    /\ pc = "distances"
    /\ todo # <<>>
    /\ LET node == Head(todo)
           node_name == node_namer(attrib, tag_counts, node)
           att1 == node_namer_attrib(attrib, tag_counts, node)
           tc1 == node_namer_counts(attrib, tag_counts, node)
           tree1 == node_namer_tree(tree, attrib, tag_counts, node)
           node_depth == depth(node)
           node_list == getchildren(node)
           \* core.py:411-412, reached when node_list is not empty
           parent == getparent(node_list[1])
           parent_name == node_namer(att1, tc1, parent)
           att2 == IF Len(node_list) = 0 THEN att1 ELSE node_namer_attrib(att1, tc1, parent)
           tc2 == IF Len(node_list) = 0 THEN tc1 ELSE node_namer_counts(att1, tc1, parent)
           rest == node_list \o Tail(todo)
           \* the oracle has answers for the nodes that have windows to compare
           orc == IF node \in DOMAIN ratio THEN ratio[node] ELSE <<>>
       IN  /\ IF node_depth >= MINIMUM_DEPTH
              THEN /\ IF Len(node_list) = 0
                      THEN distances' = SetItem(distances, node_name, SomeTable(<<>>))
                      ELSE \E seen \in SerializedRatios(orc, att2, node) :
                               distances' =
                                   SetItem(distances, node_name,
                                           SomeTable(_compare_combinations(
                                                         Len(node_list), max_tag_per_gnode,
                                                         parent_name, seen)))
                   /\ attrib' = att2
                   /\ tag_counts' = tc2
                   /\ tree' = IF Len(node_list) = 0 THEN tree1
                              ELSE node_namer_tree(tree1, att1, tc1, parent)
              ELSE /\ distances' = SetItem(distances, node_name, NoneTable)
                   /\ attrib' = att1
                   /\ tag_counts' = tc1
                   /\ tree' = tree1
           /\ todo' = rest
           /\ pc' = IF rest = <<>> THEN "regions" ELSE "distances"
    /\ UNCHANGED <<fnvars, config, ratio, used, data_regions,
                   data_records, stack, all_data_regions, cur_dr, iter_i>>

\* dict.get(key), None when the key is missing
GetTable(d, key) == IF key \in DOMAIN d THEN d[key] ELSE NoneTable

\* MDR._uncovered_data_regions (core.py:748-763), on the region sets drs and
\* the namer state (t, att, tc): the set it returns, the error it raises
\* ("" for none) and the namer state it leaves.  The namer is called on the
\* node, on every child in turn and on the child; a name that is no key of
\* drs raises KeyError
_uncovered_data_regions(drs, t, att, tc, node, child) ==
    LET node_name == node_namer(att, tc, node)
        st1 == NamerFold(t, att, tc, <<node>>)
        children == getchildren(node)
        st2 == NamerFold(st1.tree, st1.attrib, st1.tag_counts, children)
        children_names == [i \in 1..Len(children) |-> st2.attrib[children[i]]]
        child_name == node_namer(st2.attrib, st2.tag_counts, child)
        st3 == NamerFold(st2.tree, st2.attrib, st2.tag_counts, <<child>>)
        \* children_names.index(child_name), 0-based
        child_idx == (CHOOSE i \in 1..Len(children) :
                         /\ children_names[i] = child_name
                         /\ \A j \in 1..(i - 1) : children_names[j] # child_name) - 1
    IN  IF node_name \notin DOMAIN drs
        THEN [error |-> "KeyError", regions |-> {}, tree |-> st1.tree,
              attrib |-> st1.attrib, tag_counts |-> st1.tag_counts]
        ELSE IF \E dr \in drs[node_name] : Contains(dr, child_idx)
        THEN [error |-> "", regions |-> {}, tree |-> st3.tree,
              attrib |-> st3.attrib, tag_counts |-> st3.tag_counts]
        ELSE IF child_name \notin DOMAIN drs
        THEN [error |-> "KeyError", regions |-> {}, tree |-> st3.tree,
              attrib |-> st3.attrib, tag_counts |-> st3.tag_counts]
        ELSE [error |-> "", regions |-> drs[child_name], tree |-> st3.tree,
              attrib |-> st3.attrib, tag_counts |-> st3.tag_counts]

\* the call of MDR._find_data_regions on a node (core.py:514-546, 572-573):
\* on the root when nothing is on the stack, else on the next child of the
\* node on top; at depth >= 3 the node's own regions are identified and stored
FindDataRegionsEnter ==
    /\ pc = "regions"
    /\ \/ stack = <<>>
       \/ /\ stack # <<>>
          /\ stack[Len(stack)].i < tree.nch[stack[Len(stack)].node]
    /\ LET node == IF stack = <<>> THEN Root
                   ELSE getchildren(stack[Len(stack)].node)[stack[Len(stack)].i + 1]
           node_name == node_namer(attrib, tag_counts, node)
           node_depth == depth(node)
           n_children == tree.nch[node]
       IN  /\ attrib' = node_namer_attrib(attrib, tag_counts, node)
           /\ tag_counts' = node_namer_counts(attrib, tag_counts, node)
           /\ tree' = node_namer_tree(tree, attrib, tag_counts, node)
           /\ data_regions' =
                  IF node_depth >= MINIMUM_DEPTH
                  THEN SetItem(data_regions, node_name,
                               _identify_data_regions(
                                   0, node_name, n_children,
                                   GetTable(distances, node_name), max_tag_per_gnode,
                                   edit_distance_threshold.data_region))
                  ELSE data_regions
           /\ stack' = Append(stack, [node |-> node, i |-> 0, temp_data_regions |-> {}])
    /\ UNCHANGED <<fnvars, config, ratio, used, distances,
                   data_records, pc, todo, all_data_regions, cur_dr, iter_i>>

\* the return of MDR._find_data_regions from a node whose loop over the
\* children is over (core.py:557-558), and in the caller the lines after the
\* call (core.py:548-552); after the return from the root __call__ goes on to
\* _find_data_records (core.py:339-354)
FindDataRegionsReturn ==
    /\ pc = "regions"
    /\ stack # <<>>
    /\ stack[Len(stack)].i = tree.nch[stack[Len(stack)].node]
    /\ LET top == stack[Len(stack)]
           node_name == node_namer(attrib, tag_counts, top.node)
           drs1 == IF depth(top.node) >= MINIMUM_DEPTH
                   THEN [data_regions EXCEPT
                            ![node_name] = data_regions[node_name] \cup top.temp_data_regions]
                   ELSE data_regions
           callers == SubSeq(stack, 1, Len(stack) - 1)
       IN  /\ data_regions' = drs1
           /\ IF callers = <<>>
              THEN /\ stack' = <<>>
                   /\ pc' = "records"
                   /\ UNCHANGED <<tree, attrib, tag_counts>>
              ELSE LET caller == callers[Len(callers)]
                       uncovered ==
                           IF depth(caller.node) >= MINIMUM_DEPTH
                           THEN _uncovered_data_regions(drs1, tree, attrib, tag_counts,
                                                        caller.node, top.node)
                           ELSE [error |-> "", regions |-> {}, tree |-> tree,
                                 attrib |-> attrib, tag_counts |-> tag_counts]
                   IN  /\ tree' = uncovered.tree
                       /\ attrib' = uncovered.attrib
                       /\ tag_counts' = uncovered.tag_counts
                       /\ IF uncovered.error # ""
                          THEN \* the exception leaves every pending call
                               /\ stack' = <<>>
                               /\ pc' = uncovered.error
                          ELSE /\ stack' = [callers EXCEPT ![Len(callers)] =
                                               [node |-> caller.node,
                                                i |-> caller.i + 1,
                                                temp_data_regions |->
                                                    caller.temp_data_regions
                                                        \cup uncovered.regions]]
                               /\ pc' = "regions"
    /\ UNCHANGED <<fnvars, config, ratio, used,
                   distances, data_records, todo, all_data_regions, cur_dr, iter_i>>

\* a slip in _find_data_records: the intersection of the region sets
IntersectionOfValues(d) ==
    {r \in UNION {d[name] : name \in DOMAIN d} : \A name \in DOMAIN d : r \in d[name]}

\* set.union(*d.values()) (core.py:768-770) for a dictionary with a value
UnionOfValues(d) == UNION {d[name] : name \in DOMAIN d}

\* MDR._find_data_records (core.py:768-770): the union of all the region
\* sets; set.union() of no set at all raises TypeError
FindDataRecordsStart ==
    /\ pc = "records"
    /\ IF DOMAIN data_regions = {}
       THEN /\ pc' = "TypeError"
            /\ UNCHANGED all_data_regions
       ELSE /\ all_data_regions' = UnionOfValues(data_regions)
            /\ pc' = "records_loop"
    /\ UNCHANGED <<fnvars, config, tree, ratio, attrib, tag_counts, used,
                   distances, data_regions, data_records, todo, stack, cur_dr, iter_i>>

\* the for loop of core.py:777 takes the next region of the set, in the
\* order the set happens to iterate; __iter__ resets _iter_i (core.py:109-111)
NextRegion ==
    /\ pc = "records_loop"
    /\ is_empty(cur_dr) \/ iter_i >= n_gnodes(cur_dr)
    /\ \E dr \in all_data_regions :
           /\ cur_dr' = dr
           /\ all_data_regions' = all_data_regions \ {dr}
    /\ iter_i' = 0
    /\ UNCHANGED <<fnvars, config, tree, ratio, attrib, tag_counts, used,
                   distances, data_regions, data_records, pc, todo, stack>>

\* a slip in _find_records_1: any() instead of all(), one similar pair is enough
Records1AnySimilar(gnode, node, node_name, node_children_distances, threshold) ==
    LET all_children_are_similar ==
            \E p \in DOMAIN node_children_distances :
                node_children_distances[p] <= threshold
        node_is_table_row == tree.tag[node] = TR
    IN  IF all_children_are_similar /\ ~node_is_table_row
        THEN [i \in 1..tree.nch[node] |-> <<GNode(node_name, i - 1, i)>>]
        ELSE <<(<<gnode>>)>>

\* a slip in _find_records_1: the table-row test is forgotten
Records1AnyTag(gnode, node, node_name, node_children_distances, threshold) ==
    LET all_children_are_similar ==
            \A p \in DOMAIN node_children_distances :
                node_children_distances[p] <= threshold
    IN  IF all_children_are_similar
        THEN [i \in 1..tree.nch[node] |-> <<GNode(node_name, i - 1, i)>>]
        ELSE <<(<<gnode>>)>>

\* the records MDR._find_records_1 appends for a node (core.py:813-832)
Records1(gnode, node, node_name, node_children_distances, threshold) ==
    LET all_children_are_similar ==
            \A p \in DOMAIN node_children_distances :
                node_children_distances[p] <= threshold
        node_is_table_row == tree.tag[node] = TR
    IN  IF all_children_are_similar /\ ~node_is_table_row
        THEN [i \in 1..tree.nch[node] |-> <<GNode(node_name, i - 1, i)>>]
        ELSE <<(<<gnode>>)>>

\* a slip in the lookup of the size-1 table: the default is {} instead of None
GetSize1OrEmpty(table) ==
    IF 1 \in DOMAIN table THEN SomeTable(table[1]) ELSE SomeTable(<<>>)

\* self.distances[node_name].get(1, None) (core.py:800, 843-845)
GetSize1(table) ==
    IF 1 \in DOMAIN table THEN SomeTable(table[1]) ELSE NoneTable

\* DataRegion.__next__ (core.py:113-121) on a region of gnode size 1, then
\* MDR._find_records_1 on the gnode (core.py:792-832).  get_node's [0] raises
\* IndexError when no node has the name, and parent_node[gnode.start]
\* (core.py:797) raises it when the parent has no child of that index
FindRecords1 ==
    /\ pc = "records_loop"
    /\ ~is_empty(cur_dr)
    /\ iter_i < n_gnodes(cur_dr)
    /\ cur_dr.gnode_size = 1
    /\ iter_i' = iter_i + 1
    /\ LET gnode == IterGNode(cur_dr, iter_i)
           found == get_node(gnode.parent)
       IN  IF found = {}
           THEN /\ pc' = "IndexError"
                /\ UNCHANGED <<tree, attrib, tag_counts, data_records>>
           ELSE IF gnode.start >= tree.nch[CHOOSE p \in found : TRUE]
           THEN /\ pc' = "IndexError"
                /\ UNCHANGED <<tree, attrib, tag_counts, data_records>>
           ELSE LET parent_node == CHOOSE p \in found : TRUE
                    node == getchildren(parent_node)[gnode.start + 1]
                    node_name == node_namer(attrib, tag_counts, node)
                    node_table == GetTable(distances, node_name)
                    node_children_distances == GetSize1(node_table.table)
                IN  /\ attrib' = node_namer_attrib(attrib, tag_counts, node)
                    /\ tag_counts' = node_namer_counts(attrib, tag_counts, node)
                    /\ tree' = node_namer_tree(tree, attrib, tag_counts, node)
                    /\ IF node_name \notin DOMAIN distances
                       THEN pc' = "KeyError" /\ UNCHANGED data_records
                       ELSE IF node_table.is_none
                       THEN pc' = "AttributeError" /\ UNCHANGED data_records
                       ELSE IF node_children_distances.is_none
                       THEN UNCHANGED <<pc, data_records>>
                       ELSE /\ data_records' =
                                   data_records \o
                                   Records1(gnode, node, node_name,
                                            node_children_distances.table,
                                            edit_distance_threshold.find_records_1)
                            /\ UNCHANGED pc
    /\ UNCHANGED <<fnvars, config, ratio, used, distances,
                   data_regions, todo, stack, all_data_regions, cur_dr>>

\* parent_node[start : end] (core.py:841): the children of the indices
\* start .. end - 1 that exist; a slice never raises
Slice(children, start, end) ==
    LET lo == IF start < Len(children) THEN start ELSE Len(children)
        hi == IF end < Len(children) THEN end ELSE Len(children)
    IN  [i \in 1..(hi - lo) |-> children[lo + i]]

\* childrens_distances of MDR._find_records_n (core.py:843-845): for each
\* node in turn the namer is called, self.distances[name] is read (KeyError
\* when the name is no key) and .get(1, None) is called on it (AttributeError
\* when it is None); the first error ends the loop.  The value holds the
\* tables read so far, the error ("" for none) and the namer state left
RECURSIVE ChildrensDistances(_, _, _, _, _, _)
ChildrensDistances(dists, t, att, tc, nodes, tables) ==
    IF nodes = <<>>
    THEN [error |-> "", tables |-> tables, tree |-> t, attrib |-> att, tag_counts |-> tc]
    ELSE LET name == node_namer(att, tc, Head(nodes))
             st == NamerFold(t, att, tc, <<Head(nodes)>>)
         IN  IF name \notin DOMAIN dists
             THEN [error |-> "KeyError", tables |-> tables, tree |-> st.tree,
                   attrib |-> st.attrib, tag_counts |-> st.tag_counts]
             ELSE IF dists[name].is_none
             THEN [error |-> "AttributeError", tables |-> tables, tree |-> st.tree,
                   attrib |-> st.attrib, tag_counts |-> st.tag_counts]
             ELSE ChildrensDistances(dists, st.tree, st.attrib, st.tag_counts, Tail(nodes),
                                     Append(tables, GetSize1(dists[name].table)))

\* the records of the else branch of MDR._find_records_n (core.py:863-870)
RecordsN(names, n_children) ==
    [i \in 1..n_children |-> [k \in 1..Len(names) |-> GNode(names[k], i - 1, i)]]

\* DataRegion.__next__ on a region of gnode size above 1, then
\* MDR._find_records_n on the gnode (core.py:836-872).  When no table is None
\* the generator of core.py:848-854 reads
\* self.edit_distance_threshold.find_records_n for the first key of a table
\* that is not empty: the tuple has no such field (core.py:205-210), which
\* raises AttributeError; had it the field, the key (a GNodePair) compared to
\* a number would raise TypeError.
FindRecordsN ==
    /\ pc = "records_loop"
    /\ ~is_empty(cur_dr)
    /\ iter_i < n_gnodes(cur_dr)
    /\ cur_dr.gnode_size # 1
    /\ iter_i' = iter_i + 1
    /\ LET gnode == IterGNode(cur_dr, iter_i)
           found == get_node(gnode.parent)
       IN  IF found = {}
           THEN /\ pc' = "IndexError"
                /\ UNCHANGED <<tree, attrib, tag_counts, data_records>>
           ELSE LET parent_node == CHOOSE p \in found : TRUE
                    nodes == Slice(getchildren(parent_node), gnode.start, gnode.end)
                    named == ChildrensDistances(distances, tree, attrib, tag_counts,
                                                nodes, <<>>)
                    names == [k \in 1..Len(nodes) |-> named.attrib[nodes[k]]]
                    numbers_children == [k \in 1..Len(nodes) |-> tree.nch[nodes[k]]]
                    childrens_distances == named.tables
                    all_have_same_nb_children ==
                        Cardinality({numbers_children[k] : k \in 1..Len(nodes)}) = 1
                    none_in == \E k \in 1..Len(nodes) : childrens_distances[k].is_none
                    reads_threshold ==
                        \E k \in 1..Len(nodes) : DOMAIN childrens_distances[k].table # {}
                IN  /\ attrib' = named.attrib
                    /\ tag_counts' = named.tag_counts
                    /\ tree' = named.tree
                    /\ IF named.error # ""
                       THEN pc' = named.error /\ UNCHANGED data_records
                       ELSE IF none_in
                       THEN /\ data_records' = Append(data_records, <<gnode>>)
                            /\ UNCHANGED pc
                       ELSE IF reads_threshold
                       THEN /\ pc' = IF "find_records_n" \notin DOMAIN edit_distance_threshold
                                     THEN "AttributeError" ELSE "TypeError"
                            /\ UNCHANGED data_records
                       ELSE IF ~all_have_same_nb_children
                       THEN /\ data_records' = Append(data_records, <<gnode>>)
                            /\ UNCHANGED pc
                       ELSE /\ data_records' =
                                   data_records \o RecordsN(names, numbers_children[1])
                            /\ UNCHANGED pc
    /\ UNCHANGED <<fnvars, config, ratio, used, distances,
                   data_regions, todo, stack, all_data_regions, cur_dr>>

\* the for loop of core.py:777 is over: __call__ returns self.data_records
ReturnRecords ==
    /\ pc = "records_loop"
    /\ is_empty(cur_dr) \/ iter_i >= n_gnodes(cur_dr)
    /\ all_data_regions = {}
    /\ pc' = "done"
    /\ UNCHANGED <<fnvars, config, tree, ratio, attrib, tag_counts, used,
                   distances, data_regions, data_records, todo, stack,
                   all_data_regions, cur_dr, iter_i>>

Next ==
    \/ Call
    \/ ComputeDistances
    \/ FindDataRegionsEnter
    \/ FindDataRegionsReturn
    \/ FindDataRecordsStart
    \/ NextRegion
    \/ FindRecords1
    \/ FindRecordsN
    \/ ReturnRecords

Spec == Init /\ [][Next]_vars

----------------------------------------------------------------------------
(* SpecNamer: the calls the client of a NodeNamer makes on the nodes of a  *)
(* tree, in any order: NodeNamer.__call__ and NodeNamer.cleanup_tag_name.  *)
(* The same calls can be made on the tree of an MDR instance between two   *)
(* invocations of the instance, so the actions are enabled there too.      *)

\* the trees of SpecNamer: the shallow one and tables of rows without cells
NamerTrees ==
    {ShallowTree} \cup
    {DeepTree([i \in 1..k |-> CHOOSE kind \in RowKinds : kind.n = 0], rowtag) :
        k \in 1..2, rowtag \in {<<"div">>, TR}}

InitNamer ==
    /\ FnOff
    /\ max_tag_per_gnode = MaxK
    /\ edit_distance_threshold = DefaultThresholds
    /\ tree \in NamerTrees
    /\ ratio = <<>>
    /\ attrib = [p \in Nodes |-> NoName]
    /\ tag_counts = <<>>
    /\ used = FALSE
    /\ distances = <<>>
    /\ data_regions = <<>>
    /\ data_records = <<>>
    /\ pc = "namer"
    /\ todo = <<>>
    /\ stack = <<>>
    /\ all_data_regions = {}
    /\ cur_dr = DataRegionEmpty
    /\ iter_i = 0

\* the states in which the client can call the namer: no invocation of an
\* MDR instance is running
NamerCallable == {"namer"} \cup Callable

\* NodeNamer.__call__ (core.py:237-246) on a node of the tree: a named node
\* keeps its name, an unnamed node is named whatever the counter of its tag
NodeNamerCall ==
    /\ pc \in NamerCallable
    /\ \E node \in Nodes :
           /\ attrib' = node_namer_attrib(attrib, tag_counts, node)
           /\ tag_counts' = node_namer_counts(attrib, tag_counts, node)
           /\ tree' = node_namer_tree(tree, attrib, tag_counts, node)
    /\ UNCHANGED <<fnvars, config, ratio, used, distances, data_regions,
                   data_records, pc, todo, stack, all_data_regions, cur_dr, iter_i>>

\* NodeNamer.cleanup_tag_name (core.py:248-250) on a node of the tree: the
\* identity attribute of the node is deleted.  On a node without the
\* attribute the del raises KeyError in the client and nothing changes
CleanupTagName ==
    /\ pc \in NamerCallable
    /\ \E node \in Nodes :
           /\ attrib[node] # NoName
           /\ attrib' = [attrib EXCEPT ![node] = NoName]
    /\ UNCHANGED <<fnvars, config, tree, ratio, tag_counts, used, distances,
                   data_regions, data_records, pc, todo, stack,
                   all_data_regions, cur_dr, iter_i>>

NextNamer ==
    \/ NodeNamerCall
    \/ CleanupTagName

SpecNamer == InitNamer /\ [][NextNamer]_vars

\* the counters of tag_counts have no bound in the code and SpecNamer has
\* infinitely many reachable states; TLC explores those satisfying the state
\* constraint TagCountsWithin
MaxTagCount == 4

TagCountsWithin == \A tag \in DOMAIN tag_counts : tag_counts[tag] <= MaxTagCount

----------------------------------------------------------------------------
(* Claims about _compare_combinations, checked under SpecCC.               *)

\* the pair of the adjacent windows [l, l+s) and [l+s, l+2s) of ParentName
AdjacentPair(l, s) ==
    GNodePair(GNode(ParentName, l, l + s), GNode(ParentName, l + s, l + 2 * s))

\* C1: for every gnode size s with 1 <= s <= K and 2s <= n, the entry of the
\* returned table for s holds exactly the pairs of adjacent windows
\* ([l, l+s), [l+s, l+2s)) for l in 0..n-2s, that is n-2s+1 pairs, and no other.
C1_PairsOfEachSize ==
    fn_pc = "cc_ret" =>
        \A s \in 1..max_tag_per_gnode :
            2 * s <= n_nodes =>
                /\ s \in DOMAIN ret
                /\ DOMAIN ret[s] = {AdjacentPair(l, s) : l \in 0..(n_nodes - 2 * s)}
                /\ Cardinality(DOMAIN ret[s]) = n_nodes - 2 * s + 1
                /\ \A p \in DOMAIN ret[s] :
                       /\ 0 <= p.left.start
                       /\ p.left.end = p.right.start
                       /\ p.right.end <= n_nodes

C1_Witness ==
    /\ fn_pc = "cc_ret"
    /\ n_nodes >= 5
    /\ 2 \in DOMAIN ret
    /\ Cardinality(DOMAIN ret[2]) = n_nodes - 3
    /\ AdjacentPair(1, 2) \in DOMAIN ret[2]

\* C2: the returned table has an entry for gnode size s if and only if
\* 1 <= s <= K and 2s <= n; an empty children list gives an empty table.
C2_SizesPresent ==
    fn_pc = "cc_ret" =>
        /\ DOMAIN ret = {s \in 1..max_tag_per_gnode : 2 * s <= n_nodes}
        /\ \A s \in DOMAIN ret : DOMAIN ret[s] # {}
        /\ (n_nodes = 0 => ret = <<>>)

C2_Witness ==
    /\ fn_pc = "cc_ret"
    /\ n_nodes = 3
    /\ max_tag_per_gnode >= 2
    /\ DOMAIN ret = {1}

----------------------------------------------------------------------------
(* Claims about _identify_data_regions, checked under SpecIDR.             *)

\* the stored score of the pair of windows [l, l+s) and [l+s, l+2s)
StoredScore(l, s) == node_distances.table[s][AdjacentPair(l, s)]

Threshold == DEFAULT_MDR_EDIT_DISTANCE_THRESHOLD

\* C4: the regions returned for one parent have pairwise disjoint
\* sibling-index ranges [first_gnode_start_index, last_covered_tag_index].
C4_RegionsDisjoint ==
    fn_pc = "idr_ret" =>
        \A r1 \in ret : \A r2 \in ret :
            r1 # r2 =>
                \/ last_covered_tag_index(r1) < r2.first_gnode_start_index
                \/ last_covered_tag_index(r2) < r1.first_gnode_start_index

C4_Witness ==
    /\ fn_pc = "idr_ret"
    /\ \E r1 \in ret : \E r2 \in ret :
           /\ r1.gnode_size # r2.gnode_size
           /\ last_covered_tag_index(r1) + 1 = r2.first_gnode_start_index

\* C5: every returned region is well formed: gnode_size in 1..K,
\* n_nodes_covered a positive multiple of gnode_size with at least 2 gnodes,
\* first_gnode_start_index >= start_index, last covered index <= n_children - 1,
\* and it is not the empty placeholder.
C5_RegionsWellFormed ==
    fn_pc = "idr_ret" =>
        \A r \in ret :
            /\ ~is_empty(r)
            /\ r.gnode_size \in 1..max_tag_per_gnode
            /\ r.n_nodes_covered > 0
            /\ r.n_nodes_covered % r.gnode_size = 0
            /\ n_gnodes(r) * r.gnode_size = r.n_nodes_covered
            /\ n_gnodes(r) >= 2
            /\ r.first_gnode_start_index >= start_index
            /\ r.first_gnode_start_index + r.n_nodes_covered - 1 <= n_nodes - 1

C5_Witness ==
    /\ fn_pc = "idr_ret"
    /\ start_index > 0
    /\ \E r \in ret :
           /\ r.gnode_size = 2
           /\ n_gnodes(r) = 2
           /\ r.first_gnode_start_index > start_index
           /\ last_covered_tag_index(r) = n_nodes - 1

\* The candidate of the phase (gnode size s, first window at f), computed
\* afresh: the first run of consecutive similar pairs of the phase.
PhaseHits(s, f) ==
    {j \in (f + s)..(n_nodes - s) : (j - f) % s = 0 /\ StoredScore(j - s, s) <= Threshold}

PhaseCandidate(s, f) ==
    LET hits == PhaseHits(s, f)
    IN  IF hits = {} THEN DataRegionEmpty
        ELSE LET j0 == CHOOSE j \in hits : \A h \in hits : j <= h
                 run == CHOOSE k \in 1..n_nodes :
                            /\ \A m \in 0..(k - 1) : j0 + m * s \in hits
                            /\ j0 + k * s \notin hits
             IN  DataRegion(ParentName, s, j0 - s, (run + 1) * s)

\* the fold of the candidates, ascending gnode size then ascending phase
RECURSIVE FoldCandidates(_, _, _)
FoldCandidates(s, f, best) ==
    IF s > max_tag_per_gnode THEN best
    ELSE IF f >= start_index + s THEN FoldCandidates(s + 1, start_index, best)
    ELSE LET c == PhaseCandidate(s, f)
             wins == /\ ~is_empty(c)
                     /\ c.n_nodes_covered > best.n_nodes_covered
                     /\ (is_empty(best)
                         \/ c.first_gnode_start_index <= best.first_gnode_start_index)
         IN  FoldCandidates(s, f + 1, IF wins THEN c ELSE best)

ExampleScores(s2_first, s2_second) ==
    /\ n_nodes = 5 /\ start_index = 0 /\ max_tag_per_gnode >= 2
    /\ ~node_distances.is_none
    /\ oracle[<<0, 1>>] = 3 /\ oracle[<<1, 1>>] = 3
    /\ oracle[<<2, 1>>] = 9 /\ oracle[<<3, 1>>] = 3
    /\ oracle[<<0, 2>>] = s2_first /\ oracle[<<1, 2>>] = s2_second

\* C6: the region a call selects is the fold of the per-phase candidates in
\* order of ascending gnode size then ascending phase, a candidate replacing
\* the best only when it covers strictly more nodes and starts at or before
\* it; on the two 5-children examples the call returns the stated regions.
C6_SelectedIsFold ==
    fn_pc = "idr_ret" =>
        /\ DOMAIN node_distances.table # {} =>
               max_dr = FoldCandidates(1, start_index, DataRegionEmpty)
        /\ ExampleScores(9, 3) =>
               ret = {DataRegion(ParentName, 1, 0, 3), DataRegion(ParentName, 1, 3, 2)}
        /\ ExampleScores(3, 9) => ret = {DataRegion(ParentName, 2, 0, 4)}

C6_Witness ==
    /\ fn_pc = "idr_ret"
    /\ ExampleScores(9, 3)
    /\ PhaseCandidate(2, 1) = DataRegion(ParentName, 2, 1, 4)
    /\ max_dr = DataRegion(ParentName, 1, 0, 3)

\* the start_index of the call that returned region r: the outermost one for
\* the leftmost region, else one past the region returned just before
CallStart(r) ==
    LET before == {q \in ret : q.first_gnode_start_index < r.first_gnode_start_index}
    IN  IF before = {} THEN start_index
        ELSE LET q == CHOOSE x \in before :
                          \A y \in before :
                              y.first_gnode_start_index <= x.first_gnode_start_index
             IN  last_covered_tag_index(q) + 1

RightMaximal(r) ==
    LET s == r.gnode_size
        next == r.first_gnode_start_index + r.n_nodes_covered
    IN  \/ next + s > n_nodes
        \/ StoredScore(next - s, s) > Threshold

LeftMaximal(r) ==
    LET s == r.gnode_size
        first == r.first_gnode_start_index
    IN  \/ first - s < CallStart(r)
        \/ StoredScore(first - s, s) > Threshold

\* C7: every returned region is a maximal run for its gnode size: on the
\* right no further window fits or the next pair is above the threshold; on
\* the left the preceding window starts before the call's start_index or the
\* preceding pair is above the threshold.
C7_RegionsMaximal ==
    fn_pc = "idr_ret" =>
        \A r \in ret : RightMaximal(r) /\ LeftMaximal(r)

C7_Witness ==
    /\ fn_pc = "idr_ret"
    /\ \E r \in ret :
           LET s == r.gnode_size
               next == r.first_gnode_start_index + r.n_nodes_covered
           IN  /\ next + s <= n_nodes
               /\ StoredScore(next - s, s) > Threshold
               /\ r.first_gnode_start_index - s >= CallStart(r)
               /\ StoredScore(r.first_gnode_start_index - s, s) > Threshold

----------------------------------------------------------------------------
(* Claims about the run of MDR.__call__, checked under Spec.               *)

AfterDistances == pc \notin {"off", "idle", "distances"}

\* C3: after the distance phase every node has exactly one entry of the
\* distance map, keyed by its node id; the entry is None exactly when the
\* node's depth (root 0, a child one more than its parent) is below 3, and
\* else a table, which is empty when the node has fewer than two children.
C3_OneEntryPerNode ==
    AfterDistances =>
        /\ \A p \in Nodes : attrib[p] # NoName /\ attrib[p] \in DOMAIN distances
        /\ \A p \in Nodes : \A q \in Nodes : p # q => attrib[p] # attrib[q]
        /\ DOMAIN distances = {attrib[p] : p \in Nodes}
        /\ \A p \in Nodes :
               /\ distances[attrib[p]].is_none <=> Len(p) < 3
               /\ (Len(p) >= 3 /\ tree.nch[p] < 2) => distances[attrib[p]].table = <<>>
               /\ (Len(p) >= 3 /\ tree.nch[p] >= 2) => 1 \in DOMAIN distances[attrib[p]].table

C3_Witness ==
    /\ pc = "regions"
    /\ \E p \in Nodes : \E q \in Nodes : \E r \in Nodes :
           /\ Len(p) = 3 /\ 2 \in DOMAIN distances[attrib[p]].table
           /\ Len(q) = 4 /\ tree.nch[q] = 1 /\ distances[attrib[q]] = SomeTable(<<>>)
           /\ Len(r) = 2 /\ distances[attrib[r]] = NoneTable

\* own(N): the result of _identify_data_regions for node N
OwnRegions(p) ==
    _identify_data_regions(0, attrib[p], tree.nch[p], distances[attrib[p]],
                           max_tag_per_gnode, edit_distance_threshold.data_region)

\* child index i lies in a region of the set: first <= i <= last, both included
LiesInside(i, regions) ==
    \E r \in regions :
        /\ r.first_gnode_start_index <= i
        /\ i <= r.first_gnode_start_index + r.n_nodes_covered - 1

\* C8: after _find_data_regions (pc is "records" when it has returned and
\* data_regions does not change from then on), the stored region set of every node N of
\* depth >= 3 is own(N) united with the stored sets of exactly the children
\* of N whose sibling index lies in no region of own(N).
C8_StoredRegions ==
    pc = "records" =>
        \A p \in Nodes :
            Len(p) >= 3 =>
                /\ attrib[p] \in DOMAIN data_regions
                /\ data_regions[attrib[p]] =
                       OwnRegions(p) \cup
                       UNION {data_regions[attrib[Append(p, i)]] :
                                  i \in {j \in 0..(tree.nch[p] - 1) :
                                             ~LiesInside(j, OwnRegions(p))}}

C8_Witness ==
    /\ pc = "records"
    /\ TableNode \in Nodes
    /\ \E r \in OwnRegions(TableNode) :
           LET last == r.first_gnode_start_index + r.n_nodes_covered - 1
           IN  /\ last + 1 < tree.nch[TableNode]
               /\ data_regions[attrib[RowNode(last)]] # {}
               /\ data_regions[attrib[RowNode(last + 1)]] # {}
               /\ ~(data_regions[attrib[RowNode(last)]] \subseteq data_regions[attrib[TableNode]])
               /\ data_regions[attrib[RowNode(last + 1)]] \subseteq data_regions[attrib[TableNode]]

\* the nodes a size-1 gnode addresses: child gnode.start of the node that
\* gnode.parent resolves to
Addressed(gnode) ==
    {v \in Nodes : /\ v # <<>>
                   /\ getparent(v) \in get_node(gnode.parent)
                   /\ v[Len(v)] = gnode.start}

HasSize1Table(v) ==
    /\ attrib[v] \in DOMAIN distances
    /\ ~distances[attrib[v]].is_none
    /\ 1 \in DOMAIN distances[attrib[v]].table

\* every score of v's size-1 table (the adjacent pairs of single children)
\* is <= the find_records_1 threshold
AllScoresSimilar(v) ==
    \A pair \in DOMAIN distances[attrib[v]].table[1] :
        distances[attrib[v]].table[1][pair] <= edit_distance_threshold.find_records_1

\* every score stored for v's children, of every window size, is <= the
\* find_records_1 threshold
EveryStoredScoreSimilar(v) ==
    \A s \in DOMAIN distances[attrib[v]].table :
        \A pair \in DOMAIN distances[attrib[v]].table[s] :
            distances[attrib[v]].table[s][pair] <= edit_distance_threshold.find_records_1

\* a step that is a call of _find_records_1 on the gnode iter_i of cur_dr
IsFindRecords1Step ==
    /\ pc = "records_loop"
    /\ ~is_empty(cur_dr)
    /\ cur_dr.gnode_size = 1
    /\ iter_i' = iter_i + 1

PerChildRecords(v) == [i \in 1..tree.nch[v] |-> <<GNode(attrib[v], i - 1, i)>>]

\* C9 as stated: _find_records_1 on a size-1 gnode addressing a node v with
\* a size-1 table appends, when every stored score of v's children is <= the
\* find_records_1 threshold and v is not a table row, exactly one record
\* <<GNode(v, i, i+1)>> per child index i in index order and none for the
\* gnode; otherwise exactly one record holding the gnode itself.
C9_EveryStoredScore ==
    [][IsFindRecords1Step =>
          \A v \in Addressed(IterGNode(cur_dr, iter_i)) :
              HasSize1Table(v) =>
                  IF EveryStoredScoreSimilar(v) /\ tree.tag[v] # TR
                  THEN data_records' = data_records \o PerChildRecords(v)
                  ELSE data_records' = Append(data_records, <<IterGNode(cur_dr, iter_i)>>)]_vars

\* C9 amended: _find_records_1 on a size-1 gnode addressing a node v with a
\* size-1 table appends, when every score of v's size-1 table is <= the
\* find_records_1 threshold and v is not a table row, exactly one record
\* <<GNode(v, i, i+1)>> per child index i in index order and none for the
\* gnode; otherwise exactly one record holding the gnode itself.  The scores
\* stored for larger windows are not consulted.
C9_FindRecords1 ==
    [][IsFindRecords1Step =>
          \A v \in Addressed(IterGNode(cur_dr, iter_i)) :
              HasSize1Table(v) =>
                  IF AllScoresSimilar(v) /\ tree.tag[v] # TR
                  THEN data_records' = data_records \o PerChildRecords(v)
                  ELSE data_records' = Append(data_records, <<IterGNode(cur_dr, iter_i)>>)]_vars

\* the node the last call of _find_records_1 was about
LastAddressed ==
    IF pc = "records_loop" /\ ~is_empty(cur_dr) /\ cur_dr.gnode_size = 1 /\ iter_i > 0
    THEN Addressed(IterGNode(cur_dr, iter_i - 1))
    ELSE {}

C9_Witness ==
    \E v \in LastAddressed :
        /\ HasSize1Table(v)
        /\ AllScoresSimilar(v)
        /\ ~EveryStoredScoreSimilar(v)
        /\ tree.tag[v] # TR
        /\ tree.nch[v] >= 4
        /\ Len(data_records) >= 2
        /\ data_records[Len(data_records)] = <<GNode(attrib[v], tree.nch[v] - 1, tree.nch[v])>>
        /\ data_records[Len(data_records) - 1] =
               <<GNode(attrib[v], tree.nch[v] - 2, tree.nch[v] - 1)>>

\* C10: for a gnode addressing a node whose tag is 'tr' and that has a size-1
\* table, _find_records_1 appends exactly one record holding the gnode itself,
\* even when every score of the node's children is at or below the threshold.
C10_TableRowNotExploded ==
    [][IsFindRecords1Step =>
          \A v \in Addressed(IterGNode(cur_dr, iter_i)) :
              (HasSize1Table(v) /\ tree.tag[v] = TR) =>
                  /\ Len(data_records') = Len(data_records) + 1
                  /\ data_records'[Len(data_records')] = <<IterGNode(cur_dr, iter_i)>>
                  /\ SubSeq(data_records', 1, Len(data_records)) = data_records]_vars

C10_Witness ==
    \E v \in LastAddressed :
        /\ HasSize1Table(v)
        /\ AllScoresSimilar(v)
        /\ tree.tag[v] = TR
        /\ data_records # <<>>
        /\ data_records[Len(data_records)] = <<IterGNode(cur_dr, iter_i - 1)>>

\* C11: _find_records_1 on a size-1 gnode addressing a node v that has no
\* size-1 distance table (v has fewer than two children) appends no record
\* and leaves the record collection unchanged, without failing.
C11_NoTableNoRecord ==
    [][IsFindRecords1Step =>
          \A v \in Addressed(IterGNode(cur_dr, iter_i)) :
              (~HasSize1Table(v) /\ tree.nch[v] < 2) =>
                  /\ data_records' = data_records
                  /\ pc' = pc]_vars

C11_Witness ==
    /\ iter_i >= 2
    /\ data_records # <<>>
    /\ \E v \in LastAddressed :
           /\ ~HasSize1Table(v)
           /\ tree.nch[v] = 1
           /\ data_records[Len(data_records)] = <<IterGNode(cur_dr, iter_i - 2)>>

\* a step that is a call of _find_records_n on the gnode iter_i of cur_dr
IsFindRecordsNStep ==
    /\ pc = "records_loop"
    /\ ~is_empty(cur_dr)
    /\ cur_dr.gnode_size > 1
    /\ iter_i' = iter_i + 1

\* the sibling nodes a gnode addresses, in sibling order, under each node
\* that gnode.parent resolves to
AddressedSiblings(gnode) ==
    {SubSeq(getchildren(p), gnode.start + 1, gnode.end) : p \in get_node(gnode.parent)}

\* the condition of the split: same child count, a size-1 table for every
\* node, and every score of every table at or below the threshold
SplitCondition(nodes) ==
    /\ \A k \in 1..Len(nodes) : tree.nch[nodes[k]] = tree.nch[nodes[1]]
    /\ \A k \in 1..Len(nodes) : HasSize1Table(nodes[k]) /\ AllScoresSimilar(nodes[k])

\* the i-th per-index record is [GNode(node_1, i, i+1), ..., GNode(node_m, i, i+1)]
PerIndexRecords(nodes) ==
    [i \in 1..tree.nch[nodes[1]] |->
        [k \in 1..Len(nodes) |-> GNode(attrib[nodes[k]], i - 1, i)]]

\* C12: _find_records_n on a gnode of m > 1 sibling nodes appends per-index
\* records only if all m nodes have the same child count and every one has a
\* size-1 table whose scores are all <= the threshold; in every other case it
\* appends exactly one record holding the whole gnode, without failing.
C12_FindRecordsN ==
    [][IsFindRecordsNStep =>
          \A nodes \in AddressedSiblings(IterGNode(cur_dr, iter_i)) :
              /\ (/\ tree.nch[nodes[1]] > 0
                  /\ data_records' = data_records \o PerIndexRecords(nodes))
                     => SplitCondition(nodes)
              /\ ~SplitCondition(nodes) =>
                     /\ data_records' = Append(data_records, <<IterGNode(cur_dr, iter_i)>>)
                     /\ pc' = pc]_vars

\* C13: when the m > 1 nodes of a gnode all have the same child count c, each
\* has a size-1 table and every stored score of every one of them is <= the
\* threshold, _find_records_n appends exactly c records, the i-th being
\* [GNode(node_1, i, i+1), ..., GNode(node_m, i, i+1)] in sibling order.
C13_PerIndexRecords ==
    [][IsFindRecordsNStep =>
          \A nodes \in AddressedSiblings(IterGNode(cur_dr, iter_i)) :
              SplitCondition(nodes) =>
                  /\ data_records' = data_records \o PerIndexRecords(nodes)
                  /\ pc' = pc]_vars

\* C14: invoking the same MDR instance again after a first invocation has
\* returned its records raises UsedMDRException at once: nothing is run again
\* and nothing the first invocation left is changed.
C14_SecondCallRaises ==
    [][(pc = "done" /\ pc' # pc) =>
          /\ used
          /\ pc' = "UsedMDRException"
          /\ UNCHANGED <<used, attrib, tag_counts, distances, data_regions,
                         data_records, todo, stack>>]_vars

\* a second invocation has raised after a first one that returned records:
\* with no region of gnode size above 1 and no x-row the first invocation
\* cannot have raised
C14_Witness ==
    /\ pc = "UsedMDRException"
    /\ used
    /\ data_records # <<>>
    /\ \A p \in Nodes : tree.tag[p] # XRow
    /\ \A name \in DOMAIN data_regions : \A r \in data_regions[name] : r.gnode_size = 1

\* C15: running the engine on a document in which no node has depth >= 3 is
\* not an error: the run raises nothing and returns an empty record collection.
C15_ShallowIsNotAnError ==
    (\A p \in Nodes : Len(p) < MINIMUM_DEPTH) =>
        /\ pc \notin ErrorPcs
        /\ pc = "done" => data_records = <<>>

\* some node has depth >= 3 and every score stored in the distance map is
\* above the region threshold
NoRepeatingStructure ==
    /\ \E p \in Nodes : Len(p) >= MINIMUM_DEPTH
    /\ \A name \in DOMAIN distances :
           ~distances[name].is_none =>
               \A s \in DOMAIN distances[name].table :
                   \A pair \in DOMAIN distances[name].table[s] :
                       distances[name].table[s][pair] > edit_distance_threshold.data_region

AfterRegions == pc \in {"records", "records_loop", "done"}

\* C16: on a document with nodes of depth >= 3 but no repeating structure
\* (every stored pair score above the region threshold) the run raises
\* nothing, the region set of every node of depth >= 3 is empty and the
\* record collection it returns is empty.
C16_NoStructureNoRecords ==
    (AfterDistances /\ NoRepeatingStructure) =>
        /\ pc \notin ErrorPcs
        /\ \A name \in DOMAIN data_regions : data_regions[name] = {}
        /\ AfterRegions =>
               \A p \in Nodes : Len(p) >= MINIMUM_DEPTH => attrib[p] \in DOMAIN data_regions
        /\ data_records = <<>>

C16_Witness ==
    /\ pc = "done"
    /\ NoRepeatingStructure
    /\ data_records = <<>>
    /\ TableNode \in Nodes
    /\ tree.nch[TableNode] >= 3
    /\ \E i \in 0..(tree.nch[TableNode] - 1) : tree.nch[RowNode(i)] >= 2

----------------------------------------------------------------------------
(* Claims about the construction, checked under SpecNew.                   *)

\* every threshold within [0, 1] and a positive max window
ValidConfiguration ==
    /\ max_tag_per_gnode >= 1
    /\ \A field \in DOMAIN edit_distance_threshold :
           0 <= edit_distance_threshold[field] /\ edit_distance_threshold[field] <= 10

\* C17: constructing the engine with a threshold outside [0, 1] or with a
\* non-positive max window is rejected at construction: no instance that can
\* be called (pc = "idle") has such a configuration.
C17_ConfigurationValidated ==
    pc = "idle" => ValidConfiguration

----------------------------------------------------------------------------
(* Claims about DataRegion, checked under SpecDR.                          *)

\* the sibling indices the yielded gnodes cover
CoveredByYielded == UNION {ret[k].start..(ret[k].end - 1) : k \in 1..Len(ret)}

\* C18: iterating a DataRegion yields exactly n_nodes_covered / gnode_size
\* gnodes, left to right, the k-th being (parent, first + k*gnode_size,
\* first + (k+1)*gnode_size); the indices they cover are exactly
\* first_gnode_start_index..last_covered_tag_index, with no gap and no
\* overlap; and an index is contained in the region iff it lies in that range.
C18_IterationCoversRegion ==
    LET first == cur_dr.first_gnode_start_index
        size == cur_dr.gnode_size
        last == first + cur_dr.n_nodes_covered - 1
    IN  /\ fn_pc = "dr_iter" => Len(ret) = iter_i
        /\ fn_pc \in {"dr_stop", "dr_contains"} =>
               /\ Len(ret) * size = cur_dr.n_nodes_covered
               /\ \A k \in 1..Len(ret) :
                      ret[k] = GNode(cur_dr.parent, first + (k - 1) * size, first + k * size)
               /\ \A k \in 1..(Len(ret) - 1) : ret[k].end = ret[k + 1].start
               /\ CoveredByYielded = first..last
               /\ last = last_covered_tag_index(cur_dr)
        /\ fn_pc = "dr_contains" =>
               /\ contained <=> (first <= asked_index /\ asked_index <= last)
               /\ contained <=> asked_index \in CoveredByYielded

C18_Witness ==
    /\ fn_pc = "dr_contains"
    /\ cur_dr = DataRegion(ParentName, 2, 2, 4)
    /\ ret = <<GNode(ParentName, 2, 4), GNode(ParentName, 4, 6)>>
    /\ asked_index = 5
    /\ contained

----------------------------------------------------------------------------
(* Claims about the node ids, checked under Spec.                          *)

\* the nodes of a tag that a step names for the first time
NewlyNamed(tag) ==
    {p \in Nodes : tree.tag[p] = tag /\ attrib[p] = NoName /\ attrib'[p] # NoName}

AllTags == {tree.tag[p] : p \in Nodes}

\* C19: the node namer is idempotent: called again on a node it returns the
\* id assigned on the first call, and no step of the run, whatever calls of
\* the namer it makes, changes the id of a node that has one or advances a
\* per-tag counter by more than the number of nodes it names for the first
\* time.
C19_NamerIdempotent ==
    [][/\ \A p \in Nodes :
              attrib[p] # NoName =>
                  /\ node_namer(attrib, tag_counts, p) = attrib[p]
                  /\ node_namer_attrib(attrib, tag_counts, p) = attrib
                  /\ node_namer_counts(attrib, tag_counts, p) = tag_counts
                  /\ attrib'[p] = attrib[p]
       /\ \A tag \in AllTags :
              TagCount(tag_counts', tag) =
                  TagCount(tag_counts, tag) + Cardinality(NewlyNamed(tag))]_vars

\* the namer has been called again on every node of the path to a cell
\* (by _find_data_regions, after _compute_distances named them all) and the
\* counter of td is still the number of td nodes
C19_Witness ==
    /\ pc = "regions"
    /\ Len(stack) = 6
    /\ \A p \in Nodes : attrib[p] # NoName
    /\ TagCount(tag_counts, <<"td">>) = Cardinality({p \in Nodes : tree.tag[p] = <<"td">>})
    /\ TagCount(tag_counts, <<"td">>) >= 2
    /\ attrib[stack[6].node] = <<"td", 0>>

\* an id that no node carries
UnknownName == <<"td", 99>>

\* C20: within one run node ids are unique and reverse-resolvable: for every
\* node n of the tree, whatever its tag, resolving the id assigned to n
\* (get_node) returns n itself and no other node; resolving an id that no
\* node carries fails with a lookup error.
C20_IdsResolve ==
    AfterDistances =>
        /\ \A p \in Nodes : \A q \in Nodes : p # q => attrib[p] # attrib[q]
        /\ \A n \in Nodes : get_node(attrib[n]) = {n}
        /\ get_node(UnknownName) = {}

----------------------------------------------------------------------------
(* Claims about the whole run, checked under Spec.                         *)

\* C21: a mining run never changes the tag or the ordered children list of a
\* node of the input tree: every step leaves every tag and every child count
\* as they were, and the only thing a step adds to a node is its identity
\* attribute, which once set stays.
C21_TreeNotMutated ==
    [][/\ tree'.tag = tree.tag
       /\ tree'.nch = tree.nch
       /\ DOMAIN attrib' = Nodes
       /\ \A p \in Nodes : attrib[p] # NoName => attrib'[p] = attrib[p]]_vars

\* the run has returned records, every node carries its identity and the
\* tags are still the ones of the input documents
C21_Witness ==
    /\ pc = "done"
    /\ data_records # <<>>
    /\ TableNode \in Nodes
    /\ tree.nch[TableNode] >= 2
    /\ \A p \in Nodes : attrib[p] # NoName /\ Head(attrib[p]) = Head(tree.tag[p])
    /\ tree.tag[TableNode] = <<"table">>
    /\ \A i \in 0..(tree.nch[TableNode] - 1) : tree.tag[RowNode(i)] \in RowTags

\* the region has gnodes of one node and one of them is a node with a size-1
\* table: _find_records_1 appends records for it
YieldsRecords(dr) ==
    /\ dr.gnode_size = 1
    /\ \E i \in 0..(n_gnodes(dr) - 1) :
           \E v \in Addressed(IterGNode(dr, i)) : HasSize1Table(v)

\* C22: the order in which _find_data_records processes the regions is fixed
\* by the tree and the configuration alone, and with it the order of the
\* returned records: whenever the loop takes its next region, no other region
\* that yields records could have been taken in its place.
C22_RegionOrderFixed ==
    [][(pc = "records_loop" /\ all_data_regions' # all_data_regions /\ YieldsRecords(cur_dr'))
          => \A dr \in all_data_regions : YieldsRecords(dr) => dr = cur_dr']_vars

----------------------------------------------------------------------------
(* More claims about _identify_data_regions, checked under SpecIDR.        *)

\* the region opened on the pair of windows at f and f + s and then
\* extended once for each of `more` further pairs
RECURSIVE GrownRegion(_, _, _)
GrownRegion(s, f, more) ==
    IF more = 0 THEN binary_from_last_gnode(GNode(ParentName, f + s, f + 2 * s))
    ELSE extend_one_gnode(GrownRegion(s, f, more - 1))

\* the pairs of consecutive gnodes of region r, by the start of the left one
ConsecutivePairs(r) ==
    {r.first_gnode_start_index + k * r.gnode_size : k \in 0..(n_gnodes(r) - 2)}

\* C23: every returned region is sound with respect to the table: each pair
\* of consecutive gnodes of the region is a key of the table at the region's
\* gnode size and its stored score is at or below the region threshold (a
\* score equal to the threshold counts as similar); the region is the one
\* opened on the two windows of its first pair (2 * gnode_size nodes) and
\* extended by one gnode for each further pair.
C23_RegionsSound ==
    fn_pc = "idr_ret" =>
        \A r \in ret :
            /\ r.gnode_size \in DOMAIN node_distances.table
            /\ ConsecutivePairs(r) # {}
            /\ \A l \in ConsecutivePairs(r) :
                   /\ AdjacentPair(l, r.gnode_size) \in
                          DOMAIN node_distances.table[r.gnode_size]
                   /\ StoredScore(l, r.gnode_size) <= Threshold
            /\ r = GrownRegion(r.gnode_size, r.first_gnode_start_index,
                               Cardinality(ConsecutivePairs(r)) - 1)
            /\ GrownRegion(r.gnode_size, r.first_gnode_start_index, 0).n_nodes_covered
                   = 2 * r.gnode_size

\* a region of three gnodes of two nodes each, whose two pairs score exactly
\* the threshold, next to a pair above the threshold
C23_Witness ==
    /\ fn_pc = "idr_ret"
    /\ n_nodes = 6
    /\ \E r \in ret :
           /\ r.gnode_size = 2
           /\ r.first_gnode_start_index = 0
           /\ n_gnodes(r) = 3
           /\ \A l \in ConsecutivePairs(r) : StoredScore(l, 2) = Threshold
    /\ StoredScore(0, 1) > Threshold

\* the best region of the call that starts at index c
BestFrom(c) ==
    MaxDataRegion(c, ParentName, n_nodes, node_distances.table, max_tag_per_gnode,
                  edit_distance_threshold.data_region)

\* what the recursive call returns when it starts at index c
ResultFrom(c) ==
    _identify_data_regions(c, ParentName, n_nodes, node_distances, max_tag_per_gnode,
                           edit_distance_threshold.data_region)

\* C24: the recursion of _identify_data_regions is well founded and its
\* result has the stated shape: with an absent or empty table, or when no
\* region is found, the result is the empty set; else the best region of the
\* call is in the result; a region that does not reach the last child is
\* followed by a call that starts at its last covered index + 1, strictly
\* after the start of the call that found it and at most n_children - 1, and
\* the regions to its right are exactly the result of that call; a region
\* that reaches the last child has no region to its right.
C24_RecursionAdvances ==
    fn_pc = "idr_ret" =>
        /\ (node_distances.is_none \/ DOMAIN node_distances.table = {}) => ret = {}
        /\ is_empty(max_dr) => ret = {}
        /\ ~is_empty(max_dr) =>
               /\ max_dr \in ret
               /\ last_covered_tag_index(max_dr) = n_nodes - 1 => ret = {max_dr}
        /\ \A r \in ret :
               LET c == CallStart(r)
                   next == last_covered_tag_index(r) + 1
                   right == {q \in ret : q.first_gnode_start_index > r.first_gnode_start_index}
               IN  /\ r = BestFrom(c)
                   /\ next > c
                   /\ IF last_covered_tag_index(r) < n_nodes - 1
                      THEN /\ next <= n_nodes - 1
                           /\ right = ResultFrom(next)
                           /\ ~is_empty(BestFrom(next)) => BestFrom(next) \in ret
                      ELSE right = {}

\* three calls: the first two each find a region that stops before the last
\* child, the third one, started right after the second region, finds nothing
C24_Witness ==
    /\ fn_pc = "idr_ret"
    /\ Cardinality(ret) = 2
    /\ \E r \in ret :
           /\ CallStart(r) > start_index
           /\ last_covered_tag_index(r) < n_nodes - 1
           /\ ResultFrom(last_covered_tag_index(r) + 1) = {}

\* the values of last_gn_start_idx of the call that starts at index c, for
\* gnode size s: range(f + s, n - s + 1, s) for each f of range(c, c + s)
\* (core.py:596-612)
LookedUp(c, s) ==
    {j \in 0..(n_nodes + 1) :
        \E f \in c..(c + s - 1) :
            /\ f + s <= j
            /\ j < ScanStop(n_nodes, s)
            /\ (j - f) % s = 0}

\* C25: the region search is total over the tables the distance phase
\* builds: for every table built for n children with the same max window,
\* every start index, every gnode size and every phase, the pair the scan
\* looks up (the window before last_gn_start_idx and the window at it) is a
\* key of the table at that gnode size; a size absent from the table is never
\* looked up.
C25_LookupsTotal ==
    (~node_distances.is_none /\ DOMAIN node_distances.table # {}) =>
        \A c \in 0..n_nodes : \A s \in 1..max_tag_per_gnode :
            \A j \in LookedUp(c, s) :
                /\ s \in DOMAIN node_distances.table
                /\ AdjacentPair(j - s, s) \in DOMAIN node_distances.table[s]

\* a call in the middle of five children with max window 3: size 3 is absent
\* from the table and never looked up, size 2 is looked up, a region is found
C25_Witness ==
    /\ fn_pc = "idr_ret"
    /\ n_nodes = 5
    /\ max_tag_per_gnode = 3
    /\ start_index = 1
    /\ ~node_distances.is_none
    /\ 3 \notin DOMAIN node_distances.table
    /\ LookedUp(start_index, 3) = {}
    /\ LookedUp(start_index, 2) = {3}
    /\ ret # {}

----------------------------------------------------------------------------
(* More claims about the whole run, checked under Spec.                    *)

\* the regions _identify_data_regions finds for the nodes of depth >= 3
AllOwnRegions == UNION {OwnRegions(p) : p \in {q \in Nodes : depth(q) >= MINIMUM_DEPTH}}

\* C26: the set of regions _find_data_records processes is the union, over
\* the nodes of depth >= 3, of the regions _identify_data_regions found for
\* the node itself, whatever _uncovered_data_regions filtered; the loop takes
\* a new region only from the regions not yet taken and only when the
\* previous one is through, and returns only when none is left, so each
\* distinct region is processed exactly once.
C26_ProcessedRegions ==
    [][/\ (pc = "records" /\ pc' = "records_loop") => all_data_regions' = AllOwnRegions
       /\ (pc = "records_loop" /\ cur_dr' # cur_dr) =>
              /\ cur_dr' \in all_data_regions
              /\ all_data_regions' = all_data_regions \ {cur_dr'}
              /\ is_empty(cur_dr) \/ iter_i = n_gnodes(cur_dr)
              /\ iter_i' = 0
       /\ (pc = "records_loop" /\ cur_dr' = cur_dr) =>
              /\ all_data_regions' = all_data_regions
              /\ cur_dr \notin all_data_regions
       /\ (pc = "records_loop" /\ pc' = "done") =>
              /\ all_data_regions = {}
              /\ is_empty(cur_dr) \/ iter_i = n_gnodes(cur_dr)]_vars

\* the loop is through with the region of a row whose index lies inside a
\* region of the table: _uncovered_data_regions left it out of the table's
\* set, and it was processed all the same
C26_Witness ==
    /\ pc = "records_loop"
    /\ TableNode \in Nodes
    /\ \E i \in 0..(tree.nch[TableNode] - 1) :
           /\ LiesInside(i, OwnRegions(TableNode))
           /\ cur_dr \in OwnRegions(RowNode(i))
           /\ cur_dr \notin data_regions[attrib[TableNode]]
    /\ iter_i = n_gnodes(cur_dr)
    /\ Cardinality(AllOwnRegions) >= 3

\* the nodes strictly below node
Below(node) == Subtree(node) \ {node}

\* C27: identity attachment never influences a similarity score: when
\* _compute_distances visits a node, before and after the visit no node
\* below it carries an identity attribute, so the strings of its children
\* are those of the unmodified tree and the table stored for a node of depth
\* >= 3 with children is the one computed from the oracle's scores.
C27_NamingAfterScoring ==
    [][(pc = "distances" /\ todo # <<>>) =>
          LET node == Head(todo)
          IN  /\ \A q \in Below(node) : attrib[q] = NoName /\ attrib'[q] = NoName
              /\ attrib'[node] # NoName
              /\ (depth(node) >= MINIMUM_DEPTH /\ tree.nch[node] > 0) =>
                     distances'[attrib'[node]] =
                         SomeTable(_compare_combinations(tree.nch[node], max_tag_per_gnode,
                                                         attrib'[node], ratio[node]))]_vars

\* the distance phase is over the table: the table and the rows before it
\* in the traversal are named, the cells of the row to visit next are not,
\* and the table's scores are stored
C27_Witness ==
    /\ pc = "distances"
    /\ todo # <<>>
    /\ Head(todo) = RowNode(1)
    /\ tree.nch[RowNode(0)] >= 2
    /\ tree.nch[RowNode(1)] >= 2
    /\ attrib[TableNode] # NoName
    /\ attrib[CellNode(0, 1)] # NoName
    /\ \A q \in Below(RowNode(1)) : attrib[q] = NoName
    /\ 1 \in DOMAIN distances[attrib[TableNode]].table
    /\ 1 \in DOMAIN distances[attrib[RowNode(0)]].table

\* C28: the instance is marked used before any traversal starts and is never
\* unmarked: no step takes the mark away, every step of an invocation is
\* taken with the mark set, and an invocation made after one that returned or
\* raised (an error of a later phase included) raises UsedMDRException and
\* leaves the distance tables, the region sets and the records as they were.
C28_UsedForGood ==
    [][/\ used => used'
       /\ pc' # "idle" => used'
       /\ pc # "idle" => used
       /\ (pc \in Callable \ {"idle"} /\ pc' # pc) =>
              /\ pc' = "UsedMDRException"
              /\ UNCHANGED <<distances, data_regions, data_records>>
       /\ pc = "UsedMDRException" =>
              UNCHANGED <<used, distances, data_regions, data_records>>]_vars

\* an invocation has raised the reuse error after one that ended with the
\* TypeError of _find_data_records: on the document without a node of depth
\* >= 3 no invocation returns
C28_Witness ==
    /\ pc = "UsedMDRException"
    /\ tree = ShallowTree
    /\ used
    /\ DOMAIN data_regions = {}
    /\ \A p \in Nodes : attrib[p] # NoName

====
